---- MODULE Spec2Model ----
(***************************************************************************)
(* The tool-call dispatch loop of career-chatbot/app.py: CareerChatBot.chat *)
(* and CareerChatBot.handle_tool_calls, the two tool functions, notify, and *)
(* the stubs of the three boundaries the loop talks to (the completion      *)
(* client, the Telegram endpoint, the two knowledge files).                 *)
(*                                                                          *)
(* Text is a sequence of string tokens: an f-string is the concatenation of *)
(* its literal parts and of the str() of its fields.                        *)
(***************************************************************************)
EXTENDS Integers, Sequences, FiniteSets, TLC

VARIABLES
    files,      \* which of the two knowledge files exist when __init__ runs
    summary,    \* self.summary, set by __init__
    linkedin,   \* self.linkedin, set by __init__
    env,        \* per turn: the completions and tool calls the stub has left to
                \* give, the tool calls it picks from, its smallest tool batch
    pc,         \* per turn: where the call of chat stands
    message,    \* per turn: chat's argument message
    history,    \* per turn: chat's argument history
    messages,   \* per turn: chat's local list messages
    response,   \* per turn: chat's local response (the last completion)
    results,    \* per turn: handle_tool_calls' local list results
    idx,        \* per turn: position of handle_tool_calls' for loop
    ret,        \* per turn: the value chat returned
    error,      \* per turn: the exception that left chat
    sent,       \* per turn: the conversations passed to completions.create
    received,   \* per turn: the completions it returned
    invoked,    \* per turn: the calls tool_fn(**args) that bound their arguments
    notified    \* per turn: the POSTs to the Telegram endpoint

vars == <<files, summary, linkedin, env, pc, message, history, messages, response,
          results, idx, ret, error, sent, received, invoked, notified>>

\* ---------------------------------------------------------------- bounds

\* Completions the stub answers in one turn of the single-turn specification.
MaxModelCalls == 3
\* Tool calls the stub requests in one turn of the single-turn specification.
MaxToolCalls == 2
\* The same two budgets for each turn of the two-turn specification.
ConcModelCalls == 2
ConcToolCalls == 1

\* The calls of chat on the one CareerChatBot instance that may be in progress
\* together.
Turns == {1, 2}

\* ------------------------------------------------------------------ text

\* Python's None where a text is expected.
None == <<"<None>">>
\* No tool_call_id (every message but a tool message).
NoId == <<>>

JStr(s) == [type |-> "string", v |-> s]
JInt(s) == [type |-> "integer", v |-> s]
\* str(value) inside an f-string.
Format(value) == value.v

\* ------------------------------------------------------- knowledge, prompt

PdfText == <<"Sai Harsha CV">>
SummaryText == <<"Summary of A.S Harsha">>
PdfPlaceholder == <<"Error: LinkedIn PDF file not found. Check file path.">>
SummaryPlaceholder == <<"Error: Summary file not found. Check file path.">>

name == "A.S Harsha"

\* CareerChatBot.__init__: each knowledge source is read, or replaced by its
\* placeholder when the file is not found.
read_linkedin(found) == IF found THEN PdfText ELSE PdfPlaceholder
\* An except branch that passes leaves the summary without text.
read_summary_blank(found) == IF found THEN SummaryText ELSE <<>>
read_summary(found) == IF found THEN SummaryText ELSE SummaryPlaceholder

system_prompt ==
    <<"You are acting as ", name, ". Answer questions ... ## Summary:">>
        \o summary \o <<"## LinkedIn:">> \o linkedin
        \o <<"Stay in character as ", name, " throughout.">>

Message(role, content, tool_calls, tool_call_id) ==
    [role |-> role, content |-> content, tool_calls |-> tool_calls,
     tool_call_id |-> tool_call_id]

SystemMessage == Message("system", system_prompt, <<>>, NoId)
UserMessage(text) == Message("user", text, <<>>, NoId)

\* chat's first statement: messages = [system] + history + [user].
InitialMessages(msg, hist) == <<SystemMessage>> \o hist \o <<UserMessage(msg)>>

\* messages bound to the caller's list itself and grown in place.
SameList(hist, msgs) == msgs

\* The list the caller passed as history, once chat has built or grown
\* msgs: [...] + history + [...] is a new list, and append and extend are
\* called on that one, so the caller's list is as it was.
CallerList(hist, msgs) == hist

\* The arguments of chat that are explored: a first message with no history,
\* and a later message with the history of one exchange in which a tool was
\* called (a well-formed history: the call is followed by its result).
EarlierCall ==
    [id |-> <<0, 1>>, name |-> "record_unknown_question",
     arguments |-> "{\"question\": \"hi\"}"]
Inputs ==
    {[message |-> <<"Who are you?">>, history |-> <<>>],
     [message |-> <<"My email is a@b.com">>,
      history |-> <<UserMessage(<<"hi">>),
                    Message("assistant", None, <<EarlierCall>>, NoId),
                    Message("tool", <<"{\"recorded\": \"ok\"}">>, <<>>, EarlierCall.id),
                    Message("assistant", <<"Hello!">>, <<>>, NoId)>>]}

\* ------------------------------------------------------------ tool schema

\* tools: the two function descriptors handed to the completion client.
tools == {"record_user_details", "record_unknown_question"}

\* parameters.properties and parameters.required of the two descriptors.
SchemaProperties(tool) ==
    IF tool = "record_user_details"
    THEN [email |-> "string", name |-> "string", notes |-> "string"]
    ELSE [question |-> "string"]
SchemaRequired(tool) ==
    IF tool = "record_user_details" THEN {"email"} ELSE {"question"}

\* ---------------------------------------------------------- json.loads

\* The argument payloads the stub sends, as the text the model wrote.
EmailOnlyText == "{\"email\": \"a@b.com\"}"
FullText == "{\"email\": \"a@b.com\", \"name\": \"Ann\", \"notes\": \"call me\"}"
QuestionText == "{\"question\": \"What is X?\"}"
EmailIntText == "{\"email\": 123}"
EmptyText == "{}"
TruncatedText == "{\"question\": \"What is"
MessageText == "{\"message\": \"pwned\"}"

\* json.loads of those texts: the parsed dict, or JSONDecodeError.
json_loads(text) ==
    CASE text = EmailOnlyText -> [ok |-> TRUE, val |-> [email |-> JStr("a@b.com")]]
      [] text = FullText ->
            [ok |-> TRUE,
             val |-> [email |-> JStr("a@b.com"), name |-> JStr("Ann"),
                      notes |-> JStr("call me")]]
      [] text = QuestionText -> [ok |-> TRUE, val |-> [question |-> JStr("What is X?")]]
      [] text = EmailIntText -> [ok |-> TRUE, val |-> [email |-> JInt("123")]]
      [] text = EmptyText -> [ok |-> TRUE, val |-> <<>>]
      [] text = MessageText -> [ok |-> TRUE, val |-> [message |-> JStr("pwned")]]
      [] OTHER -> [ok |-> FALSE, val |-> <<>>]

\* ------------------------------------------------------------- callables

\* globals().get(tool_name): the module-level functions a name resolves to.
\* Every other name the stub sends resolves to None.
GlobalFunctions == {"notify", "record_user_details", "record_unknown_question"}
globals_get(tool_name) == IF tool_name \in GlobalFunctions THEN tool_name ELSE "None"

\* The def lines: parameter names, and the defaults of those that have one.
Parameters(fn) ==
    CASE fn = "record_user_details" -> {"email", "name", "notes"}
      [] fn = "record_unknown_question" -> {"question"}
      [] fn = "notify" -> {"message"}
Defaults(fn) ==
    IF fn = "record_user_details"
    THEN [name |-> JStr("Name not provided"), notes |-> JStr("not provided")]
    ELSE <<>>

\* Python's binding of tool_fn(**args): TypeError on an unexpected keyword or a
\* missing parameter without default, else every parameter's value.
CanBind(fn, args) ==
    /\ DOMAIN args \subseteq Parameters(fn)
    /\ Parameters(fn) \ DOMAIN Defaults(fn) \subseteq DOMAIN args
Bind(fn, args) ==
    [p \in Parameters(fn) |-> IF p \in DOMAIN args THEN args[p] ELSE Defaults(fn)[p]]

\* notify's payload["text"] for a message.
notify(text) == <<"CAREER CHATBOT LOG">> \o text

\* The text each function POSTs, from its bound parameters.
record_user_details(p) ==
    notify(<<"New visitor -> ", Format(p.name), ", Email: ", Format(p.email),
             ", Notes: ", Format(p.notes)>>)
record_unknown_question(p) ==
    notify(<<"Unknown question logged -> ", Format(p.question)>>)
Posted(fn, p) ==
    CASE fn = "record_user_details" -> record_user_details(p)
      [] fn = "record_unknown_question" -> record_unknown_question(p)
      [] fn = "notify" -> notify(<<Format(p.message)>>)

\* The HTTP statuses the Telegram endpoint answers with; response.ok.
Statuses == {200, 500}
StatusText(code) == IF code = 200 THEN "200" ELSE "500"
response_ok(code) == code < 400

\* What each function returns: the two tools the dict {"recorded": "ok"}
\* whatever notify returned, notify the response's status_code.
RecordedOk == [type |-> "object", v |-> "recorded=ok"]
Returned(fn, status_code) ==
    IF fn = "notify" THEN JInt(StatusText(status_code)) ELSE RecordedOk

\* json.dumps of those results.
json_dumps(result) ==
    IF result.type = "object" THEN <<"{\"recorded\": \"ok\"}">> ELSE <<result.v>>

\* ------------------------------------------------- completion client stub

\* The tool calls the stub may request: the two tools with arguments that fit
\* their schema, with arguments that do not, a name nothing defines, and the
\* name of a module-level function that is no tool.
ToolRequests ==
    {[name |-> "record_user_details", arguments |-> EmailOnlyText],
     [name |-> "record_user_details", arguments |-> FullText],
     [name |-> "record_unknown_question", arguments |-> QuestionText],
     [name |-> "record_user_details", arguments |-> EmailIntText],
     [name |-> "record_user_details", arguments |-> EmptyText],
     [name |-> "record_unknown_question", arguments |-> TruncatedText],
     [name |-> "delete_everything", arguments |-> QuestionText],
     [name |-> "notify", arguments |-> MessageText]}

\* The smaller choice the stub has when two turns run together.
FewToolRequests ==
    {[name |-> "record_user_details", arguments |-> EmailOnlyText],
     [name |-> "delete_everything", arguments |-> QuestionText],
     [name |-> "notify", arguments |-> MessageText]}

Batches(menu, least, n) == UNION {[1..k -> menu] : k \in least..n}

\* The ids the provider gives the tool calls of the k-th completion of a
\* turn: unique within the turn.
ToolCalls(k, batch) ==
    [j \in 1..Len(batch) |->
        [id |-> <<k, j>>, name |-> batch[j].name, arguments |-> batch[j].arguments]]

Completion(finish_reason, content, tool_calls) ==
    [finish_reason |-> finish_reason, content |-> content, tool_calls |-> tool_calls]

NoResponse == Completion("", None, <<>>)

\* Completions whose finish_reason is not "tool_calls".
FinalCompletions(k) ==
    {Completion("stop", <<"I am A.S Harsha.">>, <<>>),
     Completion("length", None,
                ToolCalls(k, <<[name |-> "record_unknown_question",
                                   arguments |-> QuestionText]>>))}

\* Completions whose finish_reason is "tool_calls", with at most n tool calls.
ToolCompletions(k, budget) ==
    {Completion("tool_calls", None, ToolCalls(k, b)) :
        b \in Batches(budget.menu, budget.least, budget.tools)}

\* What the stub may answer to the k-th call of a turn.
Completions(k, budget) == FinalCompletions(k) \cup ToolCompletions(k, budget)

\* ------------------------------------------------------------------ chat

\* messages kept on the instance (self.messages): one list for every turn.
SharedSlot(t) == 1

\* messages is a local of each call of chat: turn t's list is its own.
Slot(t) == t

AssistantMessage(r) == Message("assistant", r.content, r.tool_calls, NoId)

\* A tool message that leaves out the id of its tool call.
ToolMessageWithoutId(tool_call, result) ==
    Message("tool", json_dumps(result), <<>>, NoId)

\* handle_tool_calls' results.append({...}) for one tool call.
ToolMessage(tool_call, result) ==
    Message("tool", json_dumps(result), <<>>, tool_call.id)

\* The two statements in the other order: the results before the assistant
\* message that requested them.
ExtendedResultsFirst(msgs, r, res) == (msgs \o res) \o <<AssistantMessage(r)>>

\* A trimmed conversation: the oldest message after the system message is
\* dropped to make room for the new ones.
ExtendedTrimmed(msgs, r, res) ==
    (<<msgs[1]>> \o SubSeq(msgs, 3, Len(msgs)) \o <<AssistantMessage(r)>>) \o res

\* The results alone: the assistant message that requested them is dropped.
ExtendedWithoutAssistant(msgs, r, res) == msgs \o res

\* messages.append(response.choices[0].message); messages.extend(results).
Extended(msgs, r, res) == Append(msgs, AssistantMessage(r)) \o res

\* A test of the message's tool_calls instead of the finish_reason.
HasToolCalls(r) == r.tool_calls # <<>>

\* The while loop's test of finish_reason.
RequestsTools(r) == r.finish_reason = "tool_calls"

\* A return that turns a missing content into the empty text.
ContentOrEmpty(r) == IF r.content = None THEN <<"">> ELSE r.content

\* return response.choices[0].message.content.
ReturnValue(r) == r.content

\* The tool call handle_tool_calls' for loop stands at.
Current(t) == response[t].tool_calls[idx[t]]
InLoop(t) == pc[t] = "tools" /\ idx[t] <= Len(response[t].tool_calls)

\* The exception one pass of the for loop raises before any function body
\* runs, or "" when tool_fn(**args) binds its arguments.
Raises(tool_call) ==
    LET args == json_loads(tool_call.arguments)
        tool_fn == globals_get(tool_call.name)
    IN  IF ~args.ok THEN "JSONDecodeError"
        ELSE IF tool_fn = "None" THEN "TypeError"
        ELSE IF ~CanBind(tool_fn, args.val) THEN "TypeError"
        ELSE ""

Invocation(tool_call) ==
    LET args == json_loads(tool_call.arguments).val
        tool_fn == globals_get(tool_call.name)
    IN  [id |-> tool_call.id, fn |-> tool_fn, args |-> args,
         params |-> Bind(tool_fn, args)]

\* One requests.post of notify, made for the tool call id: its text, whether
\* it raised, the status it was answered with, whether notify printed it.
Post(id, text, raised, status_code) ==
    [id |-> id, text |-> text, raised |-> raised, status_code |-> status_code,
     logged |-> ~raised /\ ~response_ok(status_code)]

\* A notify that POSTs a text once only.
NotifyOnce(log, post) ==
    IF \E i \in 1..Len(log) : log[i].text = post.text THEN log ELSE Append(log, post)

\* Every call of notify POSTs.
Notify(log, post) == Append(log, post)

SingleTurn == [t \in Turns |->
    IF t = 1
    THEN [calls |-> MaxModelCalls, tools |-> MaxToolCalls, menu |-> ToolRequests,
          least |-> 0]
    ELSE [calls |-> 0, tools |-> 0, menu |-> {}, least |-> 0]]
TwoTurns == [t \in Turns |->
    [calls |-> ConcModelCalls, tools |-> ConcToolCalls, menu |-> FewToolRequests,
     least |-> 1]]
ShortTurn == [t \in Turns |->
    IF t = 1
    THEN [calls |-> ConcModelCalls, tools |-> ConcToolCalls,
          menu |-> FewToolRequests, least |-> 0]
    ELSE [calls |-> 0, tools |-> 0, menu |-> {}, least |-> 0]]

\* The state after CareerChatBot(): each knowledge text is loaded, or replaced
\* by its placeholder when its file is not found (found: whether a file may
\* be there, may be missing), and no call of chat has begun.
InitWith(found, budget) ==
    /\ files \in [pdf : found, summary : found]
    /\ linkedin = read_linkedin(files.pdf)
    /\ summary = read_summary(files.summary)
    /\ env = budget
    /\ pc = [t \in Turns |-> "idle"]
    /\ message = [t \in Turns |-> None]
    /\ history = [t \in Turns |-> <<>>]
    /\ messages = [t \in Turns |-> <<>>]
    /\ response = [t \in Turns |-> NoResponse]
    /\ results = [t \in Turns |-> <<>>]
    /\ idx = [t \in Turns |-> 0]
    /\ ret = [t \in Turns |-> None]
    /\ error = [t \in Turns |-> ""]
    /\ sent = [t \in Turns |-> <<>>]
    /\ received = [t \in Turns |-> <<>>]
    /\ invoked = [t \in Turns |-> <<>>]
    /\ notified = [t \in Turns |-> <<>>]

Init == InitWith({TRUE}, SingleTurn)
InitTwo == InitWith({TRUE}, TwoTurns)
InitStartup == InitWith(BOOLEAN, ShortTurn)

\* chat(message, history) is called: messages is built.
ChatStart(t) ==
    /\ pc[t] = "idle"
    /\ env[t].calls > 0
    /\ \E in \in Inputs :
        /\ message' = [message EXCEPT ![t] = in.message]
        /\ history' = [history EXCEPT ![t] =
                CallerList(in.history, InitialMessages(in.message, in.history))]
        /\ messages' = [messages EXCEPT ![Slot(t)] =
                InitialMessages(in.message, in.history)]
    /\ pc' = [pc EXCEPT ![t] = "loop"]
    /\ UNCHANGED <<files, summary, linkedin, env, response, results, idx, ret, error,
                   sent, received, invoked, notified>>

\* while not done: completions.create(messages=messages, tools=tools) is sent.
CallModel(t) ==
    /\ pc[t] = "loop"
    /\ env[t].calls > 0
    /\ env' = [env EXCEPT ![t].calls = @ - 1]
    /\ sent' = [sent EXCEPT ![t] = Append(@, messages[Slot(t)])]
    /\ pc' = [pc EXCEPT ![t] = "awaiting"]
    /\ UNCHANGED <<files, summary, linkedin, message, history, messages, response,
                   results, idx, ret, error, received, invoked, notified>>

\* The completion arrives and chat takes the branch of its finish_reason:
\* the else branch sets done and chat returns the content.
ModelFinishes(t) ==
    /\ pc[t] = "awaiting"
    /\ \E r \in Completions(Len(received[t]) + 1, env[t]) :
        /\ ~RequestsTools(r)
        /\ response' = [response EXCEPT ![t] = r]
        /\ received' = [received EXCEPT ![t] = Append(@, r)]
        /\ ret' = [ret EXCEPT ![t] = ReturnValue(r)]
    /\ pc' = [pc EXCEPT ![t] = "done"]
    /\ UNCHANGED <<files, summary, linkedin, env, message, history, messages, results,
                   idx, error, sent, invoked, notified>>

\* ... the tool_calls branch enters handle_tool_calls: results = [].
ModelRequestsTools(t) ==
    /\ pc[t] = "awaiting"
    /\ \E r \in Completions(Len(received[t]) + 1, env[t]) :
        /\ RequestsTools(r)
        /\ response' = [response EXCEPT ![t] = r]
        /\ received' = [received EXCEPT ![t] = Append(@, r)]
        /\ env' = [env EXCEPT ![t].tools = @ - Len(r.tool_calls)]
    /\ results' = [results EXCEPT ![t] = <<>>]
    /\ idx' = [idx EXCEPT ![t] = 1]
    /\ pc' = [pc EXCEPT ![t] = "tools"]
    /\ UNCHANGED <<files, summary, linkedin, message, history, messages, ret, error,
                   sent, invoked, notified>>

\* An except around the pass that goes on with the next tool call.
SkippedOver(i) == [pc |-> "tools", idx |-> i + 1]

\* Where an exception raised in pass i leaves the turn: neither
\* handle_tool_calls nor chat has a try, so it leaves both.
Propagated(i) == [pc |-> "error", idx |-> i]

\* One pass of the for loop that raises before a function body runs:
\* json.loads fails, tool_fn is None, or the arguments do not bind.
ToolCallRaises(t) ==
    /\ InLoop(t)
    /\ Raises(Current(t)) # ""
    /\ error' = [error EXCEPT ![t] = Raises(Current(t))]
    /\ pc' = [pc EXCEPT ![t] = Propagated(idx[t]).pc]
    /\ idx' = [idx EXCEPT ![t] = Propagated(idx[t]).idx]
    /\ UNCHANGED <<files, summary, linkedin, env, message, history, messages,
                   response, results, ret, sent, received, invoked, notified>>

\* One pass whose function runs and whose POST is answered: notify prints
\* the status when it is not ok and returns it, the result is appended.
ToolCallReturns(t) ==
    /\ InLoop(t)
    /\ Raises(Current(t)) = ""
    /\ \E status_code \in Statuses :
        LET call == Invocation(Current(t)) IN
        /\ invoked' = [invoked EXCEPT ![t] = Append(@, call)]
        /\ notified' = [notified EXCEPT ![t] =
                Notify(@, Post(call.id, Posted(call.fn, call.params), FALSE,
                               status_code))]
        /\ results' = [results EXCEPT ![t] =
                Append(@, ToolMessage(Current(t), Returned(call.fn, status_code)))]
    /\ idx' = [idx EXCEPT ![t] = @ + 1]
    /\ UNCHANGED <<files, summary, linkedin, env, pc, message, history, messages,
                   response, ret, error, sent, received>>

\* One pass whose function runs and whose POST gets no answer: requests.post
\* raises, and nothing between it and chat's caller catches.
ToolCallPostFails(t) ==
    /\ InLoop(t)
    /\ Raises(Current(t)) = ""
    /\ LET call == Invocation(Current(t)) IN
        /\ invoked' = [invoked EXCEPT ![t] = Append(@, call)]
        /\ notified' = [notified EXCEPT ![t] =
                Notify(@, Post(call.id, Posted(call.fn, call.params), TRUE, 0))]
    /\ error' = [error EXCEPT ![t] = "ConnectionError"]
    /\ pc' = [pc EXCEPT ![t] = "error"]
    /\ UNCHANGED <<files, summary, linkedin, env, message, history, messages, response,
                   results, idx, ret, sent, received>>

\* handle_tool_calls returns: the assistant message, then the results, are
\* appended to messages, and the loop goes round.
ToolCallsHandled(t) ==
    /\ pc[t] = "tools"
    /\ idx[t] > Len(response[t].tool_calls)
    /\ messages' = [messages EXCEPT ![Slot(t)] =
            Extended(@, response[t], results[t])]
    /\ history' = [history EXCEPT ![t] =
            CallerList(@, Extended(messages[Slot(t)], response[t], results[t]))]
    /\ pc' = [pc EXCEPT ![t] = "loop"]
    /\ UNCHANGED <<files, summary, linkedin, env, message, response, results,
                   idx, ret, error, sent, received, invoked, notified>>

Next ==
    \E t \in Turns :
        \/ ChatStart(t)
        \/ CallModel(t)
        \/ ModelFinishes(t)
        \/ ModelRequestsTools(t)
        \/ ToolCallRaises(t)
        \/ ToolCallReturns(t)
        \/ ToolCallPostFails(t)
        \/ ToolCallsHandled(t)

\* One call of chat.
Spec == Init /\ [][Next]_vars
\* Two calls of chat on the same instance, interleaved at will.
SpecTwo == InitTwo /\ [][Next]_vars
SpecStartup == InitStartup /\ [][Next]_vars

\* ---------------------------------------------------------------- claims

\* The tool calls of turn t whose pass of the for loop has ended, by
\* returning or by raising.
Dispatched(t) ==
    UNION {{received[t][k].tool_calls[j] :
                j \in {i \in 1..Len(received[t][k].tool_calls) :
                          \/ k < Len(received[t])
                          \/ i < idx[t]
                          \/ i = idx[t] /\ pc[t] = "error"}} :
           k \in {n \in 1..Len(received[t]) :
                    received[t][n].finish_reason = "tool_calls"}}

\* The assistant messages of a conversation that carry tool calls.
Requesting(conv) ==
    {i \in 1..Len(conv) : conv[i].role = "assistant" /\ conv[i].tool_calls # <<>>}
Last(S) == CHOOSE i \in S : \A j \in S : j <= i

\* The pairing of a conversation: right after its last assistant message that
\* carries tool calls come the tool messages of those calls, one each, in
\* the order of the calls, and no other message carries one of their ids.
Paired(conv) ==
    Requesting(conv) # {} =>
        LET at == Last(Requesting(conv))
            calls == conv[at].tool_calls
        IN  /\ at + Len(calls) <= Len(conv)
            /\ \A j \in 1..Len(calls) :
                /\ conv[at + j].role = "tool"
                /\ conv[at + j].tool_call_id = calls[j].id
                /\ Cardinality({i \in 1..Len(conv) :
                        conv[i].tool_call_id = calls[j].id}) = 1

\* C1: every conversation chat passes to the completion client is paired: each
\* tool call of its most recent requesting assistant message is answered,
\* right after that message, by exactly one tool message with its id, and
\* the answers stand in the order of the calls.
C1_SentConversationsPaired ==
    \A t \in Turns : \A n \in 1..Len(sent[t]) : Paired(sent[t][n])

\* A conversation was sent whose last requesting message carries two calls.
C1_Witness ==
    \E t \in Turns : \E n \in 1..Len(sent[t]) :
        /\ Requesting(sent[t][n]) # {}
        /\ Len(sent[t][n][Last(Requesting(sent[t][n]))].tool_calls) = 2

\* No cap is configured anywhere in the source; whatever finite cap is meant,
\* it is one the explored horizon exceeds.
IterationCap == MaxModelCalls - 1

\* C2: the loop has an enforced maximum iteration count: a turn whose every
\* completion requests calls of the registered tools makes no more model calls
\* than the cap (it ends with ToolLoopExceeded instead of calling again).
C2_ToolLoopCapped ==
    \A t \in Turns :
        (\A k \in 1..Len(received[t]) :
            /\ received[t][k].finish_reason = "tool_calls"
            /\ received[t][k].tool_calls # <<>>
            /\ \A j \in 1..Len(received[t][k].tool_calls) :
                received[t][k].tool_calls[j].name \in tools)
            => Len(sent[t]) <= IterationCap

\* C3: a tool call whose name is not one of the two registered tools fails the
\* turn: nothing is called for it, nothing is posted for it, and the
\* completion client is not called again in the turn.
C3_UnknownToolFails ==
    \A t \in Turns : \A tool_call \in Dispatched(t) :
        tool_call.name \notin tools =>
            /\ \A i \in 1..Len(invoked[t]) : invoked[t][i].id # tool_call.id
            /\ \A i \in 1..Len(notified[t]) : notified[t][i].id # tool_call.id
            /\ pc[t] = "error"
            /\ Len(sent[t]) = tool_call.id[1]

\* The arguments fit the tool's declared schema: every required property is
\* there, and every declared property that is there has the declared type.
SatisfiesSchema(tool, args) ==
    /\ SchemaRequired(tool) \subseteq DOMAIN args
    /\ \A key \in DOMAIN args \cap DOMAIN SchemaProperties(tool) :
        args[key].type = SchemaProperties(tool)[key]

\* C4: a call of a registered tool whose arguments do not parse or do not fit
\* the tool's schema fails the turn: the handler does not run, nothing is
\* posted, and the completion client is not called again in the turn.
C4_InvalidArgumentsFail ==
    \A t \in Turns : \A tool_call \in Dispatched(t) :
        LET args == json_loads(tool_call.arguments) IN
        (tool_call.name \in tools
            /\ (~args.ok \/ ~SatisfiesSchema(tool_call.name, args.val))) =>
            /\ \A i \in 1..Len(invoked[t]) : invoked[t][i].id # tool_call.id
            /\ \A i \in 1..Len(notified[t]) : notified[t][i].id # tool_call.id
            /\ pc[t] = "error"
            /\ Len(sent[t]) = tool_call.id[1]

\* C5: when the first completion of a turn does not request tools, chat has
\* returned that completion's content, after one model call, with no function
\* called and nothing posted.
C5_FinalFirstReturnsContent ==
    \A t \in Turns :
        (Len(received[t]) >= 1 /\ received[t][1].finish_reason # "tool_calls") =>
            /\ pc[t] = "done"
            /\ ret[t] = received[t][1].content
            /\ Len(sent[t]) = 1
            /\ Len(received[t]) = 1
            /\ invoked[t] = <<>>
            /\ notified[t] = <<>>

\* A turn returned the text of its first completion.
C5_Witness ==
    \E t \in Turns :
        /\ pc[t] = "done"
        /\ Len(received[t]) = 1
        /\ ret[t] = <<"I am A.S Harsha.">>

\* C6: two turns with the same arguments and the same completions, whose
\* POSTs were all answered, with whatever statuses, have sent the same
\* conversations and returned the same value.
C6_StatusInvisible ==
    \A t1, t2 \in Turns :
        (/\ pc[t1] = "done" /\ pc[t2] = "done"
         /\ message[t1] = message[t2] /\ history[t1] = history[t2]
         /\ received[t1] = received[t2])
            => sent[t1] = sent[t2] /\ ret[t1] = ret[t2]

\* The same of the turns in which only the two registered tools were called:
\* there the status of a POST reaches neither the conversation nor the value.
StatusInvisibleToTools ==
    \A t1, t2 \in Turns :
        (/\ pc[t1] = "done" /\ pc[t2] = "done"
         /\ message[t1] = message[t2] /\ history[t1] = history[t2]
         /\ received[t1] = received[t2]
         /\ \A i \in 1..Len(invoked[t1]) : invoked[t1][i].fn \in tools)
            => sent[t1] = sent[t2] /\ ret[t1] = ret[t2]

\* C7: a POST that raises does not leave notify: the turn is not ended by it.
C7_SinkNeverRaises ==
    \A t \in Turns : \A i \in 1..Len(notified[t]) :
        notified[t][i].raised => pc[t] # "error" /\ error[t] = ""

\* The tool messages turn t has produced: those already in messages, and
\* those still in results while handle_tool_calls runs or after it raised.
Produced(t) ==
    SelectSeq(messages[t] \o (IF pc[t] \in {"tools", "error"} THEN results[t] ELSE <<>>),
              LAMBDA m : m.role = "tool")
Count(seq, id) == Cardinality({i \in 1..Len(seq) : seq[i].id = id})
Contains(text, token) == \E i \in 1..Len(text) : text[i] = token

\* C8: for a call of record_user_details with the email alone, the function
\* ran with name "Name not provided" and notes "not provided", one tool
\* message {"recorded": "ok"} was produced for the call, and one POST was
\* made for it, whose text holds the email.
C8_EmailOnlyRecorded ==
    \A t \in Turns : \A tool_call \in Dispatched(t) :
        (tool_call.name = "record_user_details" /\ tool_call.arguments = EmailOnlyText) =>
            /\ Count(invoked[t], tool_call.id) = 1
            /\ \A i \in 1..Len(invoked[t]) : invoked[t][i].id = tool_call.id =>
                /\ invoked[t][i].params.email = JStr("a@b.com")
                /\ invoked[t][i].params.name = JStr("Name not provided")
                /\ invoked[t][i].params.notes = JStr("not provided")
            /\ Count(notified[t], tool_call.id) = 1
            /\ \A i \in 1..Len(notified[t]) : notified[t][i].id = tool_call.id =>
                Contains(notified[t][i].text, "a@b.com")
            /\ Cardinality({i \in 1..Len(Produced(t)) :
                    /\ Produced(t)[i].tool_call_id = tool_call.id
                    /\ Produced(t)[i].content = <<"{\"recorded\": \"ok\"}">>}) = 1

\* The same of the turns none of whose POSTs raised: with every POST
\* answered, whatever the status, the call is recorded as described.
EmailOnlyRecordedWhenAnswered ==
    \A t \in Turns : \A tool_call \in Dispatched(t) :
        (/\ tool_call.name = "record_user_details"
         /\ tool_call.arguments = EmailOnlyText
         /\ \A i \in 1..Len(notified[t]) : ~notified[t][i].raised) =>
            /\ Count(invoked[t], tool_call.id) = 1
            /\ \A i \in 1..Len(invoked[t]) : invoked[t][i].id = tool_call.id =>
                /\ invoked[t][i].params.name = JStr("Name not provided")
                /\ invoked[t][i].params.notes = JStr("not provided")
            /\ Count(notified[t], tool_call.id) = 1
            /\ \A i \in 1..Len(notified[t]) : notified[t][i].id = tool_call.id =>
                Contains(notified[t][i].text, "a@b.com")
            /\ Cardinality({i \in 1..Len(Produced(t)) :
                    /\ Produced(t)[i].tool_call_id = tool_call.id
                    /\ Produced(t)[i].content = <<"{\"recorded\": \"ok\"}">>}) = 1

\* The part of a log made for the tool calls of the k-th completion.
OfBatch(log, k) == SelectSeq(log, LAMBDA e : e.id[1] = k)

\* The tool calls of turn t's k-th completion the for loop has got past.
Passed(t, k) ==
    IF k < Len(received[t]) \/ pc[t] \in {"loop", "awaiting"}
    THEN Len(received[t][k].tool_calls)
    ELSE IF pc[t] = "error" /\ error[t] = "ConnectionError" THEN idx[t]
    ELSE idx[t] - 1

\* C9: the tool calls of a completion are dispatched one after another in the
\* order listed, with no model call in flight meanwhile: at any moment the
\* functions called for the batch are those of its first calls, one each with
\* that call's arguments, and so are the POSTs, each holding its call's
\* argument values; a model call issued after the batch finds one call and
\* one POST for every tool call of the batch, repeated calls included.
C9_SequentialDispatch ==
    \A t \in Turns : \A k \in 1..Len(received[t]) :
        received[t][k].finish_reason = "tool_calls" =>
            LET calls == received[t][k].tool_calls
                ran == OfBatch(invoked[t], k)
                posts == OfBatch(notified[t], k)
            IN  /\ Len(ran) = Passed(t, k)
                /\ Len(posts) = Passed(t, k)
                /\ \A j \in 1..Passed(t, k) :
                    /\ ran[j].id = calls[j].id
                    /\ ran[j].fn = calls[j].name
                    /\ ran[j].args = json_loads(calls[j].arguments).val
                    /\ posts[j].id = calls[j].id
                    /\ \A key \in DOMAIN ran[j].args :
                        Contains(posts[j].text, Format(ran[j].args[key]))
                /\ pc[t] = "tools" => Len(sent[t]) = Len(received[t])
                /\ Len(sent[t]) > k => Passed(t, k) = Len(calls)

\* A model call was issued after a batch of two identical calls of a tool,
\* each of which was run and posted.
C9_Witness ==
    \E t \in Turns :
        /\ Len(sent[t]) = 2
        /\ Len(received[t][1].tool_calls) = 2
        /\ received[t][1].tool_calls[1].name \in tools
        /\ received[t][1].tool_calls[1].name = received[t][1].tool_calls[2].name
        /\ received[t][1].tool_calls[1].arguments = received[t][1].tool_calls[2].arguments
        /\ Len(notified[t]) = 2

\* The completions of turn t whose assistant message and results are in
\* messages.
Handled(t) ==
    {k \in 1..Len(received[t]) :
        /\ received[t][k].finish_reason = "tool_calls"
        /\ k < Len(received[t]) \/ pc[t] \in {"loop", "awaiting"}}

\* Where the assistant message of the handled completion k stands in turn
\* t's messages.
RECURSIVE Place(_, _)
Place(t, k) ==
    IF k = 1 THEN Len(history[t]) + 3
    ELSE Place(t, k - 1) + 1 + Len(received[t][k - 1].tool_calls)

\* C10: turns that run together share no state: a turn's messages are its own
\* system message, history and user message, then, for each of its own
\* completions it has handled, that completion's assistant message and the
\* tool messages of its calls; and a turn that returned has returned the
\* content of its own last completion.
C10_TurnsIsolated ==
    \A t \in Turns :
        /\ pc[t] # "idle" =>
            LET base == InitialMessages(message[t], history[t])
                size == Len(base) + Cardinality(Handled(t))
                        + Cardinality(UNION {{<<k, j>> :
                              j \in 1..Len(received[t][k].tool_calls)} : k \in Handled(t)})
            IN  /\ Len(messages[t]) = size
                /\ SubSeq(messages[t], 1, Len(base)) = base
                /\ \A k \in Handled(t) :
                    /\ messages[t][Place(t, k)] = AssistantMessage(received[t][k])
                    /\ \A j \in 1..Len(received[t][k].tool_calls) :
                        /\ messages[t][Place(t, k) + j].role = "tool"
                        /\ messages[t][Place(t, k) + j].tool_call_id =
                                received[t][k].tool_calls[j].id
                /\ \A n \in 1..Len(sent[t]) :
                    sent[t][n] = SubSeq(messages[t], 1, Len(sent[t][n]))
        /\ pc[t] = "done" => ret[t] = received[t][Len(received[t])].content

\* Two turns with different arguments are in progress together, one inside
\* handle_tool_calls, the other waiting for its second completion.
C10_Witness ==
    /\ message[1] # message[2]
    /\ pc[1] = "tools" /\ idx[1] = 2
    /\ pc[2] = "awaiting" /\ Len(sent[2]) = 2

\* ------------------------------------------------------------------ C11

\* C11: a knowledge file that is not found at startup does not stop the
\* construction: its text is the placeholder of that source, the text of the
\* other source is what its own file gives, and every conversation a later
\* turn sends opens with the system prompt built from the two texts.
C11_MissingSourcePlaceheld ==
    /\ linkedin = IF files.pdf THEN PdfText ELSE PdfPlaceholder
    /\ summary = IF files.summary THEN SummaryText ELSE SummaryPlaceholder
    /\ \A t \in Turns : \A n \in 1..Len(sent[t]) :
        /\ sent[t][n][1].role = "system"
        /\ \A i \in 1..Len(linkedin) : Contains(sent[t][n][1].content, linkedin[i])
        /\ \A i \in 1..Len(summary) : Contains(sent[t][n][1].content, summary[i])

\* The summary file was missing and the PDF was there, and a turn that went
\* through a tool batch returned its answer.
C11_Witness ==
    /\ ~files.summary
    /\ files.pdf
    /\ summary = SummaryPlaceholder
    /\ linkedin = PdfText
    /\ \E t \in Turns : pc[t] = "done" /\ Len(sent[t]) = 2 /\ ret[t] # None

\* ------------------------------------------------------------------ C12

\* The conversation of turn t's latest call of the completion client.
LastSent(t) == sent[t][Len(sent[t])]

\* What a conversation is once a requesting completion's message and the
\* tool messages res stand at its end.
Followed(conv, r, res) ==
    conv \o <<[role |-> "assistant", content |-> r.content,
               tool_calls |-> r.tool_calls, tool_call_id |-> NoId]>> \o res

\* C12 as the claim states it: whenever a pass of the for loop is about to
\* run, messages already ends with the assistant message of the batch
\* followed by the results of the earlier tool calls of the batch.
C12_AppendedBeforeDispatch ==
    \A t \in Turns :
        InLoop(t) => messages[t] = Followed(LastSent(t), response[t], results[t])

\* C12 as the code has it: while handle_tool_calls runs, messages is still
\* the conversation last sent, without the assistant message, and results
\* holds one tool message for each earlier tool call of the batch, in order;
\* once it has returned, messages is that conversation followed by the
\* assistant message and then by the results.
C12_AppendedAfterDispatch ==
    \A t \in Turns :
        /\ pc[t] = "tools" =>
            /\ messages[t] = LastSent(t)
            /\ Len(results[t]) = idx[t] - 1
            /\ \A j \in 1..Len(results[t]) :
                /\ results[t][j].role = "tool"
                /\ results[t][j].tool_call_id = response[t].tool_calls[j].id
        /\ pc[t] = "loop" /\ sent[t] # <<>> =>
            messages[t] = Followed(LastSent(t), response[t], results[t])

\* The second pass of a batch of two is about to run: one result is collected.
C12_Witness ==
    \E t \in Turns :
        /\ InLoop(t)
        /\ idx[t] = 2
        /\ Len(results[t]) = 1
        /\ Len(response[t].tool_calls) = 2

\* ------------------------------------------------------------------ C13

\* C13: a completion whose finish_reason is not "tool_calls" is the last one
\* of its turn: chat has returned exactly its content, as many conversations
\* were sent as completions came back (k requesting ones and this one make
\* k + 1 calls, none after it), and no tool call of it was dispatched; and
\* chat returns only after such a completion.
C13_StopsAtFirstFinal ==
    \A t \in Turns :
        /\ \A k \in 1..Len(received[t]) :
            received[t][k].finish_reason # "tool_calls" =>
                /\ k = Len(received[t])
                /\ pc[t] = "done"
                /\ ret[t] = received[t][k].content
                /\ Len(sent[t]) = k
                /\ OfBatch(invoked[t], k) = <<>>
                /\ OfBatch(notified[t], k) = <<>>
        /\ pc[t] = "done" =>
            /\ received[t] # <<>>
            /\ received[t][Len(received[t])].finish_reason # "tool_calls"
            /\ \A k \in 1..(Len(received[t]) - 1) :
                received[t][k].finish_reason = "tool_calls"

\* Two requesting completions, whose tool calls ran, then a final one that
\* itself carries a tool call: three calls were made and chat returned.
C13_Witness ==
    \E t \in Turns :
        /\ pc[t] = "done"
        /\ Len(received[t]) = 3
        /\ Len(sent[t]) = 3
        /\ Len(invoked[t]) = 2
        /\ received[t][3].tool_calls # <<>>

\* ------------------------------------------------------------------ C14

\* C14: the completion chat returned on has a content and no tool calls, and
\* chat did not return None; and every completion after which the completion
\* client was called again carried at least one tool call.
C14_ContentOrToolCalls ==
    \A t \in Turns :
        /\ pc[t] = "done" =>
            /\ ret[t] # None
            /\ received[t][Len(received[t])].content # None
            /\ received[t][Len(received[t])].tool_calls = <<>>
        /\ \A k \in 1..(Len(sent[t]) - 1) : received[t][k].tool_calls # <<>>

\* ------------------------------------------------------------------ C15

\* The tool messages produced so far for the tool calls of turn t's k-th
\* completion: in messages once the batch is handled, in results before.
ToolMessagesOf(t, k) ==
    IF k \in Handled(t)
    THEN SubSeq(messages[t], Place(t, k) + 1,
                Place(t, k) + Len(received[t][k].tool_calls))
    ELSE IF received[t][k].finish_reason = "tool_calls" THEN results[t]
    ELSE <<>>

\* The text json.dumps gives for what the function fn returned when its
\* POST was answered with status_code.
Serialized(fn, status_code) ==
    IF fn = "notify" THEN <<IF status_code = 200 THEN "200" ELSE "500">>
    ELSE <<"{\"recorded\": \"ok\"}">>

\* The one entry of a log made for the tool call id.
EntryOf(log, id) == log[CHOOSE i \in 1..Len(log) : log[i].id = id]

\* C15: the j-th tool message produced for a batch has the role tool, carries
\* the id of the j-th tool call of the batch, and its content is the
\* serialized return value of the one invocation made for that tool call:
\* the function the call names, run once, with the status its own POST got.
C15_ResultsEchoOwnRequest ==
    \A t \in Turns : \A k \in 1..Len(received[t]) :
        LET calls == received[t][k].tool_calls
            made == ToolMessagesOf(t, k)
        IN  /\ Len(made) <= Len(calls)
            /\ \A j \in 1..Len(made) :
                /\ made[j].role = "tool"
                /\ made[j].tool_call_id = calls[j].id
                /\ Count(invoked[t], calls[j].id) = 1
                /\ Count(notified[t], calls[j].id) = 1
                /\ EntryOf(invoked[t], calls[j].id).fn = calls[j].name
                /\ made[j].content =
                        Serialized(calls[j].name,
                                   EntryOf(notified[t], calls[j].id).status_code)

\* A batch of two tool calls whose results differ was handled, and its tool
\* messages stand in messages.
C15_Witness ==
    \E t \in Turns :
        /\ 1 \in Handled(t)
        /\ Len(ToolMessagesOf(t, 1)) = 2
        /\ ToolMessagesOf(t, 1)[1].content # ToolMessagesOf(t, 1)[2].content

\* ------------------------------------------------------------------ C16

\* C16: once a pass of the for loop has raised for an unknown tool or for
\* arguments that do not parse or bind, at position idx of its batch, the
\* turn is over with that error and returned nothing; the functions of the
\* tool calls before that position ran once each, in order, and each made
\* its POST; nothing ran for the tool call at that position or for a later
\* one; messages was left as it was last sent, the completion client was not
\* called again, and every conversation it was sent is paired.
C16_FatalErrorAborts ==
    \A t \in Turns :
        error[t] \in {"TypeError", "JSONDecodeError"} =>
            LET batch == Len(received[t])
                calls == response[t].tool_calls
                ran == OfBatch(invoked[t], batch)
                posts == OfBatch(notified[t], batch)
            IN  /\ pc[t] = "error"
                /\ ret[t] = None
                /\ idx[t] \in 1..Len(calls)
                /\ Len(ran) = idx[t] - 1
                /\ Len(posts) = idx[t] - 1
                /\ \A j \in 1..(idx[t] - 1) :
                    /\ ran[j].id = calls[j].id
                    /\ posts[j].id = calls[j].id
                    /\ ~posts[j].raised
                /\ messages[t] = LastSent(t)
                /\ Len(sent[t]) = batch
                /\ \A n \in 1..Len(sent[t]) : Paired(sent[t][n])

\* The second tool call of a batch of two names nothing callable: the first
\* one ran and made its POST, and the turn is over.
C16_Witness ==
    \E t \in Turns :
        /\ pc[t] = "error"
        /\ error[t] = "TypeError"
        /\ idx[t] = 2
        /\ Len(response[t].tool_calls) = 2
        /\ response[t].tool_calls[2].name \notin GlobalFunctions
        /\ Len(OfBatch(notified[t], Len(received[t]))) = 1

\* ------------------------------------------------------------------ C17

\* The history turn t's caller passed: the explored arguments have
\* different messages, so the message tells which one it was.
Given(t) == (CHOOSE in \in Inputs : in.message = message[t]).history

\* C17: from the call of chat on, through every pass of its loop and after
\* it returned or raised, the list the caller passed as history is what it
\* was at the call: the same length, the same elements in the same places.
C17_HistoryUntouched ==
    \A t \in Turns :
        pc[t] # "idle" =>
            /\ Len(history[t]) = Len(Given(t))
            /\ \A i \in 1..Len(history[t]) : history[t][i] = Given(t)[i]

\* A turn called with a history of four messages went through two tool
\* batches and returned.
C17_Witness ==
    \E t \in Turns :
        /\ pc[t] = "done"
        /\ Len(history[t]) = 4
        /\ Len(sent[t]) = 3
        /\ Len(messages[t]) > Len(history[t]) + 2

\* ------------------------------------------------------------------ C18

\* C18: the first conversation a turn sends is the system message, then the
\* history, then the user message; and each later one is the one sent before
\* it, whole and in place, with the assistant message of the requesting
\* completion that came back in between added at its end, followed by one
\* tool message for each tool call of that completion, in order.
C18_ConversationOnlyGrows ==
    \A t \in Turns :
        /\ sent[t] # <<>> =>
            LET first == sent[t][1] IN
            /\ Len(first) = Len(history[t]) + 2
            /\ first[1] = [role |-> "system", content |-> system_prompt,
                           tool_calls |-> <<>>, tool_call_id |-> NoId]
            /\ SubSeq(first, 2, Len(first) - 1) = history[t]
            /\ first[Len(first)] = [role |-> "user", content |-> message[t],
                                    tool_calls |-> <<>>, tool_call_id |-> NoId]
        /\ \A n \in 1..(Len(sent[t]) - 1) :
            LET before == sent[t][n]
                after == sent[t][n + 1]
                r == received[t][n]
            IN  /\ r.finish_reason = "tool_calls"
                /\ Len(after) = Len(before) + 1 + Len(r.tool_calls)
                /\ SubSeq(after, 1, Len(before)) = before
                /\ after[Len(before) + 1] =
                        [role |-> "assistant", content |-> r.content,
                         tool_calls |-> r.tool_calls, tool_call_id |-> NoId]
                /\ \A j \in 1..Len(r.tool_calls) :
                    /\ after[Len(before) + 1 + j].role = "tool"
                    /\ after[Len(before) + 1 + j].tool_call_id = r.tool_calls[j].id

\* Three conversations were sent in a turn that began with a history, each
\* later one longer by an assistant message and a tool message.
C18_Witness ==
    \E t \in Turns :
        /\ Len(sent[t]) = 3
        /\ history[t] # <<>>
        /\ Len(sent[t][2]) = Len(sent[t][1]) + 2
        /\ Len(sent[t][3]) = Len(sent[t][2]) + 2

====
